---- MODULE Spec2Model ----
(***************************************************************************)
(* Model of the MergeReceive executor of VoltDB                            *)
(* (src/ee/executors/mergereceiveexecutor.cpp): p_init picks up the       *)
(* inline order-by and limit nodes of the plan, p_execute loads the        *)
(* dependencies of every partition into a temp table, unloads it into a    *)
(* vector and merge_sort copies the tuples to the output table.            *)
(*                                                                         *)
(* A tuple is modelled by its sort key (an integer).  The vector xs holds  *)
(* the keys in staging order; a tuple_range is a pair of positions         *)
(* [first, second) of xs; the output table records, for every inserted     *)
(* tuple, the position of xs it was copied from, so that two tuples with   *)
(* the same key stay distinguishable (its contents are OutRows).           *)
(***************************************************************************)
EXTENDS Integers, Sequences, FiniteSets, TLC

\* Bounds of the model
MaxKey == 2
MaxDeps == 3
MaxRows == 3
MaxLimit == 1
MaxOffset == 1

VARIABLES
    pc,                   \* position in p_init / p_execute / merge_sort
    hasOrderBy,           \* the plan node has an inline order-by node
    sortDirection,        \* m_orderby_node->getSortDirections(), one key
    limit, offset,        \* p_execute locals, lines 206-210
    deps,                 \* batches upstream has not delivered yet
    fetches,              \* number of loadNextDependency calls made
    added,                \* tuples each returned call added to m_tmpInputTable
    tmpInput,             \* m_tmpInputTable, in insertion order
    previousTupleCount,   \* p_execute local, line 201
    partitionTupleCounts, \* p_execute local, line 202
    xs,                   \* p_execute local, line 226
    partitions,           \* merge_sort local, line 106
    nonEmptyPartitions,   \* merge_sort local, line 102
    tupleCnt,             \* merge_sort local, line 115
    tupleSkipped,         \* merge_sort local, line 116
    output,               \* m_tmpOutputTable: positions of xs, in insertion order
    mergeCountdowns,      \* calls of pmp.countdownProgress() made by merge_sort
    skipped,              \* tuples merge_sort took and did not insert (offset)
    raised                \* exception unwinding p_execute: none, abort, fetch

vars == <<pc, hasOrderBy, sortDirection, limit, offset, deps, fetches, added,
          tmpInput,
          previousTupleCount, partitionTupleCounts, xs, partitions,
          nonEmptyPartitions, tupleCnt, tupleSkipped, output,
          mergeCountdowns, skipped, raised>>

----------------------------------------------------------------------------
(* Helpers *)

SeqsUpTo(S, n) == UNION {[1..k -> S] : k \in 0..n}

Keys == 1..MaxKey

RECURSIVE SumSeq(_)
SumSeq(s) == IF s = <<>> THEN 0 ELSE Head(s) + SumSeq(Tail(s))

\* The tuples rows cut into consecutive batches of the given sizes
RECURSIVE Split(_, _)
Split(rows, sizes) ==
    IF sizes = <<>> THEN <<>>
    ELSE <<SubSeq(rows, 1, Head(sizes))>>
         \o Split(SubSeq(rows, Head(sizes) + 1, Len(rows)), Tail(sizes))

\* What upstream may hold: at most MaxDeps batches, empty ones included,
\* of at most MaxRows tuples together
Upstream ==
    UNION {{Split(rows, sizes) :
               sizes \in {c \in SeqsUpTo(0..MaxRows, MaxDeps) :
                             SumSeq(c) = Len(rows)}} :
           rows \in SeqsUpTo(Keys, MaxRows)}

\* TupleComparer(sortExpressions, sortDirections): strict weak order on keys
comp(a, b) == IF sortDirection = "ASC" THEN a < b ELSE a > b

\* VoltDBEngine::loadNextDependency: the outcomes of one call. It throws, or
\* appends the next batch and returns 1, or returns 0 when none is left.
loadNextDependency(d, table) ==
    {[threw |-> TRUE, ret |-> 0, table |-> table, deps |-> d]}
    \cup
    (IF d = <<>>
     THEN {[threw |-> FALSE, ret |-> 0, table |-> table, deps |-> d]}
     ELSE {[threw |-> FALSE, ret |-> 1, table |-> table \o Head(d),
            deps |-> Tail(d)]})

\* ProgressMonitorProxy::countdownProgress: TRUE when the engine aborts the
\* fragment by throwing out of the call.
countdownProgress == BOOLEAN

----------------------------------------------------------------------------
(* p_init, lines 160-194 *)

\* lines 176-182 and 193: with an order-by node p_init returns true and the
\* engine goes on to p_execute.  Without one the assert of line 178 stops a
\* debug build; a build without asserts dereferences the null m_orderby_node
\* at line 181, which is undefined: it crashes, or p_init goes on and returns
\* true with everything after it undefined (not followed further).  p_init
\* has no return false.
PInitOutcomes(orderBy) ==
    IF orderBy THEN {"load"}
    ELSE {"init_assert_failed", "init_crash", "init_true_undefined"}

PInit ==
    /\ pc = "init"
    /\ pc' \in PInitOutcomes(hasOrderBy)
    /\ UNCHANGED <<hasOrderBy, sortDirection, limit, offset, deps, fetches,
                   added, tmpInput, previousTupleCount, partitionTupleCounts,
                   xs, partitions, nonEmptyPartitions, tupleCnt, tupleSkipped,
                   output, mergeCountdowns, skipped, raised>>

----------------------------------------------------------------------------
(* p_execute, lines 196-219: the loading loop *)

\* Mutant: an entry is recorded after every fetch, grown or not
RecordBoundaryAlways(counts, currentTupleCount, previous) ==
    Append(counts, currentTupleCount - previous)

\* lines 215-218
RecordBoundary(counts, currentTupleCount, previous) ==
    IF currentTupleCount # previous
    THEN Append(counts, currentTupleCount - previous)
    ELSE counts

\* Mutant: an exception of the fetch is swallowed and ends the loading loop
AfterFetchSwallow(threw, loadedDeps) ==
    IF loadedDeps > 0 THEN "load" ELSE "unload"

\* Mutant: the loop condition is loadedDeps > 1, one fetch ends the loading
AfterFetchOnce(threw, loadedDeps) ==
    IF threw THEN "failed"
    ELSE IF loadedDeps > 1 THEN "load" ELSE "unload"

\* lines 212-219: do { ... } while (loadedDeps > 0), nothing is caught
AfterFetch(threw, loadedDeps) ==
    IF threw THEN "failed"
    ELSE IF loadedDeps > 0 THEN "load" ELSE "unload"

LoadNext ==
    /\ pc = "load"
    /\ \E r \in loadNextDependency(deps, tmpInput) :
        /\ fetches' = fetches + 1
        /\ deps' = r.deps
        /\ tmpInput' = r.table
        /\ pc' = AfterFetch(r.threw, r.ret)
        /\ IF r.threw
           THEN /\ raised' = "fetch"
                /\ UNCHANGED <<partitionTupleCounts, previousTupleCount,
                                added>>
           ELSE /\ raised' = raised
                /\ added' = Append(added, Len(r.table) - Len(tmpInput))
                /\ partitionTupleCounts' =
                       RecordBoundary(partitionTupleCounts, Len(r.table),
                                      previousTupleCount)
                /\ previousTupleCount' = Len(r.table)
    /\ UNCHANGED <<hasOrderBy, sortDirection, limit, offset, xs, partitions,
                   nonEmptyPartitions, tupleCnt, tupleSkipped, output,
                   mergeCountdowns, skipped>>

----------------------------------------------------------------------------
(* p_execute, lines 224-235: unloading the temp table into xs *)

\* Mutant: the abort is caught and the work goes on
AfterCountdownCaught(raises, next) == next

\* lines 138, 148, 232: countdownProgress is called outside any try block
AfterCountdown(raises, next) == IF raises THEN "aborted" ELSE next

UnloadTuple ==
    /\ pc = "unload"
    /\ Len(xs) < Len(tmpInput)
    /\ \E raises \in countdownProgress :
        /\ pc' = AfterCountdown(raises, "unload")
        /\ raised' = IF raises THEN "abort" ELSE raised
        /\ xs' = IF raises THEN xs ELSE Append(xs, tmpInput[Len(xs) + 1])
    /\ UNCHANGED <<hasOrderBy, sortDirection, limit, offset, deps, fetches,
                   added, tmpInput,
                   previousTupleCount, partitionTupleCounts, partitions,
                   nonEmptyPartitions, tupleCnt, tupleSkipped, output,
                   mergeCountdowns, skipped>>

\* iterator.next returns false: lines 238-239 call merge_sort
UnloadDone ==
    /\ pc = "unload"
    /\ Len(xs) = Len(tmpInput)
    /\ pc' = "merge"
    /\ UNCHANGED <<hasOrderBy, sortDirection, limit, offset, deps, fetches,
                   added, tmpInput,
                   previousTupleCount, partitionTupleCounts, xs, partitions,
                   nonEmptyPartitions, tupleCnt, tupleSkipped, output,
                   mergeCountdowns, skipped, raised>>

----------------------------------------------------------------------------
(* merge_sort, lines 90-152 *)

\* lines 107-113: one range per count, in order, contiguous in xs
RECURSIVE BuildPartitions(_, _)
BuildPartitions(counts, begin) ==
    IF counts = <<>> THEN <<>>
    ELSE <<[first |-> begin, second |-> begin + Head(counts)]>>
         \o BuildPartitions(Tail(counts), begin + Head(counts))

\* Mutant: merge_sort without the test of lines 98-100
MergeEntryNoCheck(counts) == "loop"

\* lines 98-100: return at once when no partition contributed a tuple;
\* p_execute then cleans up and returns true (lines 243-245)
MergeEntry(counts) == IF counts = <<>> THEN "done" ELSE "loop"

MergeStart ==
    /\ pc = "merge"
    /\ pc' = MergeEntry(partitionTupleCounts)
    /\ IF pc' = "done"
       THEN UNCHANGED <<partitions, nonEmptyPartitions, tupleCnt,
                        tupleSkipped>>
       ELSE /\ nonEmptyPartitions' = Len(partitionTupleCounts)
            /\ partitions' = BuildPartitions(partitionTupleCounts, 1)
            /\ tupleCnt' = 0
            /\ tupleSkipped' = 0
    /\ UNCHANGED <<hasOrderBy, sortDirection, limit, offset, deps, fetches,
                   added, tmpInput,
                   previousTupleCount, partitionTupleCounts, xs, output,
                   mergeCountdowns, skipped, raised>>

IsEmptyRange(r) == r.first = r.second

\* lines 118-127: erase the exhausted ranges, keeping the order of the rest
RemoveEmpty(ps) == SelectSeq(ps, LAMBDA r : ~IsEmptyRange(r))

\* Mutant: the erase of line 122 without the decrement of line 123
CountNoDecrement(ps, n) == n

\* lines 121-123: one decrement per erased range
CountAfterRemoval(ps, n) == n - (Len(ps) - Len(RemoveEmpty(ps)))

\* Mutant: the scan keeps the later range when two heads compare equal
RECURSIVE MinScanLastTie(_, _, _, _)
MinScanLastTie(ps, tuples, rangeIt, smallest) ==
    IF rangeIt > Len(ps) THEN smallest
    ELSE IF ~comp(tuples[ps[smallest].first], tuples[ps[rangeIt].first])
         THEN MinScanLastTie(ps, tuples, rangeIt + 1, rangeIt)
         ELSE MinScanLastTie(ps, tuples, rangeIt + 1, smallest)

\* Mutant: the scan compares the two heads the wrong way round
RECURSIVE MinScanSwapped(_, _, _, _)
MinScanSwapped(ps, tuples, rangeIt, smallest) ==
    IF rangeIt > Len(ps) THEN smallest
    ELSE IF comp(tuples[ps[smallest].first], tuples[ps[rangeIt].first])
         THEN MinScanSwapped(ps, tuples, rangeIt + 1, rangeIt)
         ELSE MinScanSwapped(ps, tuples, rangeIt + 1, smallest)

\* lines 81-86: the scan of min_tuple_range from rangeIt on
RECURSIVE MinScan(_, _, _, _)
MinScan(ps, tuples, rangeIt, smallest) ==
    IF rangeIt > Len(ps) THEN smallest
    ELSE IF comp(tuples[ps[rangeIt].first], tuples[ps[smallest].first])
         THEN MinScan(ps, tuples, rangeIt + 1, rangeIt)
         ELSE MinScan(ps, tuples, rangeIt + 1, smallest)

\* Mutant: the scan is skipped and the first range is returned
MinTupleRangeFirst(ps, tuples) == 1

\* lines 74-88: position in the list of the range whose head is smallest
min_tuple_range(ps, tuples) == MinScan(ps, tuples, 2, 1)

\* Mutant: the increment of the cursor is missing
AdvanceNone(ps, i) == ps

\* Mutant: the cursor is moved by two
AdvanceTwo(ps, i) == [ps EXCEPT ![i].first = @ + 2]

\* line 133, line 150: ++range->first
Advance(ps, i) == [ps EXCEPT ![i].first = @ + 1]

\* lines 118-130: the removal pass leaves one partition, enter the drain
LoopDrain ==
    /\ pc = "loop"
    /\ CountAfterRemoval(partitions, nonEmptyPartitions) = 1
    /\ partitions' = RemoveEmpty(partitions)
    /\ nonEmptyPartitions' = CountAfterRemoval(partitions, nonEmptyPartitions)
    /\ pc' = "drain"
    /\ UNCHANGED <<hasOrderBy, sortDirection, limit, offset, deps, fetches,
                   added, tmpInput,
                   previousTupleCount, partitionTupleCounts, xs, tupleCnt,
                   tupleSkipped, output, mergeCountdowns, skipped, raised>>

\* lines 118-127 and 143-150: the removal pass, then one selection step.
\* An empty list fails the assert of line 75.
LoopSelect ==
    /\ pc = "loop"
    /\ CountAfterRemoval(partitions, nonEmptyPartitions) # 1
    /\ nonEmptyPartitions' = CountAfterRemoval(partitions, nonEmptyPartitions)
    /\ LET ps == RemoveEmpty(partitions) IN
        IF ps = <<>>
        THEN /\ pc' = "assert_failed"
             /\ partitions' = ps
             /\ UNCHANGED <<output, mergeCountdowns, raised>>
        ELSE LET minRangeIt == min_tuple_range(ps, xs) IN
             \E raises \in countdownProgress :
                /\ output' = Append(output, ps[minRangeIt].first)
                /\ mergeCountdowns' = mergeCountdowns + 1
                /\ pc' = AfterCountdown(raises, "loop")
                /\ raised' = IF raises THEN "abort" ELSE raised
                /\ partitions' = IF raises THEN ps ELSE Advance(ps, minRangeIt)
    /\ UNCHANGED <<hasOrderBy, sortDirection, limit, offset, deps, fetches,
                   added, tmpInput,
                   previousTupleCount, partitionTupleCounts, xs, tupleCnt,
                   tupleSkipped, skipped>>

\* Mutant: the drain stops one tuple before the end of the range
DrainContinuesEarly(r, lim, cnt) ==
    r.first + 1 # r.second /\ (lim = -1 \/ cnt < lim)

\* line 131: the condition of the drain loop
DrainContinues(r, lim, cnt) ==
    r.first # r.second /\ (lim = -1 \/ cnt < lim)

\* Mutant: the offset test skips one tuple too many
SkipsTupleOffByOne(nSkipped, off) == nSkipped <= off

\* line 134: tupleSkipped++ < offset
SkipsTuple(nSkipped, off) == nSkipped < off

\* lines 131-139: one iteration of the drain of the only partition left
DrainStep ==
    /\ pc = "drain"
    /\ partitions # <<>>
    /\ DrainContinues(partitions[1], limit, tupleCnt)
    /\ tupleSkipped' = tupleSkipped + 1
    /\ IF SkipsTuple(tupleSkipped, offset)
       THEN /\ partitions' = Advance(partitions, 1)
            /\ skipped' = skipped + 1
            /\ UNCHANGED <<pc, output, mergeCountdowns, raised>>
       ELSE \E raises \in countdownProgress :
            /\ partitions' = Advance(partitions, 1)
            /\ output' = Append(output, partitions[1].first)
            /\ mergeCountdowns' = mergeCountdowns + 1
            /\ pc' = AfterCountdown(raises, "drain")
            /\ raised' = IF raises THEN "abort" ELSE raised
            /\ UNCHANGED skipped
    /\ UNCHANGED <<hasOrderBy, sortDirection, limit, offset, deps, fetches,
                   added, tmpInput,
                   previousTupleCount, partitionTupleCounts, xs,
                   nonEmptyPartitions, tupleCnt>>

\* lines 131 and 140, then lines 243-245: merge_sort and p_execute return
DrainDone ==
    /\ pc = "drain"
    /\ partitions # <<>>
    /\ ~DrainContinues(partitions[1], limit, tupleCnt)
    /\ pc' = "done"
    /\ UNCHANGED <<hasOrderBy, sortDirection, limit, offset, deps, fetches,
                   added, tmpInput,
                   previousTupleCount, partitionTupleCounts, xs, partitions,
                   nonEmptyPartitions, tupleCnt, tupleSkipped, output,
                   mergeCountdowns, skipped, raised>>

----------------------------------------------------------------------------
(* The executor *)

\* State after construction (lines 156-158); the plan, the parameters and
\* the batches upstream holds are the inputs of the run
Init ==
    /\ pc = "init"
    /\ hasOrderBy \in BOOLEAN
    /\ sortDirection \in {"ASC", "DESC"}
    /\ limit \in -1..MaxLimit
    /\ offset \in 0..MaxOffset
    /\ deps \in Upstream
    /\ fetches = 0
    /\ added = <<>>
    /\ tmpInput = <<>>
    /\ previousTupleCount = 0
    /\ partitionTupleCounts = <<>>
    /\ xs = <<>>
    /\ partitions = <<>>
    /\ nonEmptyPartitions = 0
    /\ tupleCnt = 0
    /\ tupleSkipped = 0
    /\ output = <<>>
    /\ mergeCountdowns = 0
    /\ skipped = 0
    /\ raised = "none"

Next ==
    \/ PInit
    \/ LoadNext
    \/ UnloadTuple
    \/ UnloadDone
    \/ MergeStart
    \/ LoopDrain
    \/ LoopSelect
    \/ DrainStep
    \/ DrainDone

Spec == Init /\ [][Next]_vars

\* p_init and p_execute run on the engine's single thread without blocking
\* (no step waits on anything), so a step that can be taken is taken
FairSpec == Spec /\ WF_vars(Next)

----------------------------------------------------------------------------
(* Vocabulary of the properties *)

\* The plan is well formed: p_init found the inline order-by node
ValidPlan == hasOrderBy

Merging == pc \in {"loop", "drain", "done", "aborted", "assert_failed"}

\* The ranges the boundary list carves out of the staged tuples
Ranges == BuildPartitions(partitionTupleCounts, 1)

\* Every partition is sorted under the comparator, in staging order
AllSorted ==
    \A k \in 1..Len(Ranges) :
        \A i \in Ranges[k].first..(Ranges[k].second - 2) :
            ~comp(tmpInput[i + 1], tmpInput[i])

\* The partition (position in the boundary list) a staged tuple belongs to
PartitionOf(i) ==
    CHOOSE k \in 1..Len(Ranges) : Ranges[k].first <= i /\ i < Ranges[k].second

\* Contents of the tuples at the given positions of the staging order
KeysOf(s) == [i \in 1..Len(s) |-> tmpInput[s[i]]]

OutRows == KeysOf(output)

IsSortedSeq(s) == \A i \in 1..(Len(s) - 1) : ~comp(s[i + 1], s[i])

\* The staged positions in S ordered by key, equal keys in staging order
RECURSIVE MergedOf(_)
MergedOf(S) ==
    IF S = {} THEN <<>>
    ELSE LET m == CHOOSE i \in S : \A j \in S :
                      \/ comp(tmpInput[i], tmpInput[j])
                      \/ (~comp(tmpInput[j], tmpInput[i]) /\ i <= j)
         IN <<m>> \o MergedOf(S \ {m})

Merged == MergedOf(1..Len(tmpInput))

Drop(s, n) == SubSeq(s, n + 1, Len(s))

Take(s, n) == SubSeq(s, 1, IF n < Len(s) THEN n ELSE Len(s))

\* The non-exhausted ranges of the partition list
Live == {k \in 1..Len(partitions) : ~IsEmptyRange(partitions[k])}

\* A multi-partition step has inserted the head of some range
Selected ==
    /\ pc = "loop"
    /\ pc' \in {"loop", "aborted"}
    /\ Len(output') = Len(output) + 1

Emitted == output'[Len(output')]

----------------------------------------------------------------------------
(* C1 *)

\* C1: when the partitions are sorted, the limit is -1 and the offset 0, the
\* finished output is sorted under the comparator and holds every staged
\* tuple exactly once.
MergeCorrectness ==
    (pc = "done" /\ limit = -1 /\ offset = 0 /\ AllSorted) =>
        /\ IsSortedSeq(OutRows)
        /\ Len(output) = Len(xs)
        /\ {output[i] : i \in 1..Len(output)} = 1..Len(xs)

MergeCorrectnessWitness ==
    /\ ValidPlan
    /\ pc = "done" /\ limit = -1 /\ offset = 0 /\ AllSorted
    /\ Len(partitionTupleCounts) = 3
    /\ Len(output) = 3
    /\ \E i, j \in 1..Len(output) : i + 1 < j /\ comp(OutRows[i], OutRows[j])
    /\ output # [i \in 1..Len(xs) |-> i]

(* C2 *)

\* C2: with a bounded limit and sorted partitions the finished output is
\* drop(offset) then take(limit) of the full merged sequence.
OffsetLimitCorrectness ==
    (ValidPlan /\ pc = "done" /\ limit >= 0 /\ AllSorted) =>
        OutRows = KeysOf(Take(Drop(Merged, offset), limit))

(* C3 *)

\* The tuple a selection step inserts is a head no other head is less than,
\* and the earliest registered range among the heads that tie with it.
SelectTie ==
    Selected =>
        \E k \in Live :
            /\ Emitted = partitions[k].first
            /\ \A q \in Live :
                /\ ~comp(xs[partitions[q].first], xs[Emitted])
                /\ (~comp(xs[Emitted], xs[partitions[q].first])) => k <= q

\* Tuples with equal keys of sorted partitions are output in the order their
\* partitions were registered.
TieOrder ==
    (Merging /\ AllSorted) =>
        \A i, j \in 1..Len(output) :
            (/\ i < j
             /\ ~comp(OutRows[i], OutRows[j])
             /\ ~comp(OutRows[j], OutRows[i])) =>
                PartitionOf(output[i]) <= PartitionOf(output[j])

\* C3: among heads that compare equal and are minimal the earliest
\* registered partition is emitted first, so equal keys come out in
\* registration order.
TieDeterminism == [][SelectTie]_vars /\ []TieOrder

TieDeterminismWitness ==
    /\ ValidPlan
    /\ pc = "done" /\ AllSorted
    /\ \E i, j \in 1..Len(output) :
        /\ i < j
        /\ OutRows[i] = OutRows[j]
        /\ PartitionOf(output[i]) < PartitionOf(output[j])
        /\ PartitionOf(output[j]) < Len(partitionTupleCounts)

(* C4 *)

\* C4: with a bounded limit the output never holds more than limit tuples.
LimitCap == (ValidPlan /\ limit >= 0) => Len(output) <= limit

(* C5 *)

\* C5: with limit -1 and sorted partitions the finished output is the merged
\* sequence without its first offset tuples.
OffsetSuppression ==
    (ValidPlan /\ pc = "done" /\ limit = -1 /\ AllSorted) =>
        /\ OutRows = KeysOf(Drop(Merged, offset))
        /\ Len(output) =
               (IF Len(xs) > offset THEN Len(xs) - offset ELSE 0)

(* C6 *)

\* C6: with one boundary entry, limit -1 and offset 0 the finished output is
\* the staged tuples in staging order, sorted or not.
SinglePartitionIdentity ==
    (pc = "done" /\ Len(partitionTupleCounts) = 1 /\ limit = -1
     /\ offset = 0) =>
        output = [i \in 1..Len(xs) |-> i]

SinglePartitionIdentityWitness ==
    /\ ValidPlan
    /\ pc = "done" /\ Len(partitionTupleCounts) = 1
    /\ limit = -1 /\ offset = 0
    /\ ~AllSorted
    /\ Len(output) = 2

(* C7 *)

EmptyInputQuiet ==
    (pc \notin {"init", "load"} /\ partitionTupleCounts = <<>>) =>
        /\ output = <<>>
        /\ mergeCountdowns = 0
        /\ pc \notin {"loop", "drain", "assert_failed"}

EmptyInputCompletes ==
    (pc = "merge" /\ partitionTupleCounts = <<>>) =>
        (pc' = "done" /\ output' = <<>>)

\* C7: with an empty boundary list the stage completes with an empty output,
\* inserts nothing and runs neither the selection nor the drain.
EmptyInput == []EmptyInputQuiet /\ [][EmptyInputCompletes]_vars

EmptyInputWitness ==
    /\ ValidPlan
    /\ pc = "done" /\ partitionTupleCounts = <<>>
    /\ fetches = 3 /\ output = <<>>

(* C8 *)

\* C8: the countdowns made by the merge equal the tuples inserted plus the
\* tuples skipped for the offset.
ProgressAccounting ==
    ValidPlan => mergeCountdowns = Len(output) + skipped

(* C9 *)

AbortStops ==
    (raised = "abort") =>
        /\ output' = output
        /\ partitions' = partitions
        /\ xs' = xs
        /\ pc' # "done"

\* C9: once the progress monitor has raised the abort the stage is aborted:
\* nothing more is inserted, no cursor moves and it never completes.
CooperativeCancellation ==
    [](raised = "abort" => pc = "aborted") /\ [][AbortStops]_vars

CooperativeCancellationWitness ==
    /\ ValidPlan
    /\ pc = "aborted" /\ raised = "abort"
    /\ Len(output) >= 2
    /\ Cardinality(Live) >= 2

(* C10 *)

FetchFailureState ==
    (raised = "fetch") =>
        /\ pc = "failed"
        /\ output = <<>>
        /\ partitions = <<>>
        /\ xs = <<>>

\* C10: a failed fetch ends the stage in failure: no further fetch, no merge,
\* nothing inserted; a finished stage has loaded every batch.
UpstreamFailureFatal ==
    /\ []FetchFailureState
    /\ [](pc = "done" => deps = <<>>)
    /\ [][(raised = "fetch") => fetches' = fetches]_vars

UpstreamFailureFatalWitness ==
    /\ ValidPlan
    /\ pc = "failed" /\ raised = "fetch"
    /\ tmpInput # <<>> /\ deps # <<>>
    /\ fetches = 2

(* C11 *)

\* The loading loop of p_execute has been left without an exception
LoadingFinished ==
    /\ pc \in {"unload", "merge", "loop", "drain", "done", "aborted",
               "assert_failed"}
    /\ raised # "fetch"

\* C11: when loading has finished the boundary list is the sequence of the
\* positive numbers of tuples the fetches added, in fetch order (no entry for
\* a fetch that added none), and its entries sum to the staged tuple count.
BoundaryWellFormed ==
    LoadingFinished =>
        /\ partitionTupleCounts = SelectSeq(added, LAMBDA n : n # 0)
        /\ \A k \in 1..Len(partitionTupleCounts) : partitionTupleCounts[k] > 0
        /\ SumSeq(partitionTupleCounts) = Len(tmpInput)
        /\ Len(added) = fetches

BoundaryWellFormedWitness ==
    /\ ValidPlan
    /\ pc = "unload"
    /\ Len(added) = 4
    /\ added[1] = 0 /\ added[2] > 0 /\ added[3] > 0 /\ added[2] # added[3]
    /\ Len(partitionTupleCounts) = 2

(* C12 *)

\* C12: without an inline order-by node the initialization reports a failure
\* to its caller and the stage is never executed.
MalformedPlanReported ==
    (~hasOrderBy /\ pc # "init") => pc = "init_failed"

(* C13 *)

\* C13: with one boundary entry and a bounded limit the finished output is
\* drop(offset) then take(limit) of the partition's tuples, in order.
FastPathHonoursLimit ==
    (ValidPlan /\ pc = "done" /\ Len(partitionTupleCounts) = 1
     /\ limit >= 0) =>
        output = Take(Drop([i \in 1..Len(xs) |-> i], offset), limit)

(* C14 *)

RECURSIVE Flatten(_)
Flatten(bs) == IF bs = <<>> THEN <<>> ELSE Head(bs) \o Flatten(Tail(bs))

\* No fetch drops or reorders a tuple of the batches upstream holds
FetchConserves == tmpInput' \o Flatten(deps') = tmpInput \o Flatten(deps)

NoFetchAfterLoading == (pc \notin {"init", "load"}) => fetches' = fetches

\* C14: loading ends only at the call that reports no more batches, so when
\* it has finished every tuple of every batch is staged, also those of
\* batches after an empty one; no fetch is made once loading has ended.
LoadsToSentinel ==
    /\ [](LoadingFinished => (deps = <<>> /\ fetches >= 1))
    /\ [][FetchConserves]_vars
    /\ [][NoFetchAfterLoading]_vars

LoadsToSentinelWitness ==
    /\ ValidPlan
    /\ pc = "loop" /\ deps = <<>>
    /\ Len(added) = 4
    /\ added[1] > 0 /\ added[2] = 0 /\ added[3] > 0 /\ added[4] = 0

(* C15 *)

\* The list and the counter as the removal pass of this iteration leaves them
AfterRemoval == RemoveEmpty(partitions)

SelectionReady ==
    /\ pc # "assert_failed"
    /\ (pc = "loop") =>
        /\ CountAfterRemoval(partitions, nonEmptyPartitions)
               = Len(AfterRemoval)
        /\ Len(AfterRemoval) >= 1
        /\ Len(partitions) - Len(AfterRemoval) <= 1
        /\ (CountAfterRemoval(partitions, nonEmptyPartitions) # 1) =>
            /\ Len(AfterRemoval) >= 2
            /\ \A k \in 1..Len(AfterRemoval) :
                /\ AfterRemoval[k].first # AfterRemoval[k].second
                /\ AfterRemoval[k].first \in 1..Len(xs)
    /\ (pc = "drain") => (Len(partitions) = 1 /\ nonEmptyPartitions = 1)

EndsThroughDrain ==
    (pc # "done" /\ pc' = "done") =>
        (pc = "drain" \/ (pc = "merge" /\ partitionTupleCounts = <<>>))

\* C15: whenever the selection scan runs the list holds two or more ranges,
\* none exhausted, so the asserts of min_tuple_range hold; after the removal
\* pass the list is never empty and its size is nonEmptyPartitions; at most
\* one range is exhausted per iteration and the merge ends through the drain.
SelectionPrecondition == []SelectionReady /\ [][EndsThroughDrain]_vars

SelectionPreconditionWitness ==
    /\ ValidPlan
    /\ pc = "loop"
    /\ Len(partitions) = 3 /\ Len(AfterRemoval) = 2
    /\ Len(output) >= 1

(* C16 *)

SelectMinimal ==
    Selected =>
        \E k \in Live :
            /\ Emitted = partitions[k].first
            /\ \A q \in Live : ~comp(xs[partitions[q].first], xs[Emitted])

\* C16: the tuple a multi-partition step takes is the head of a non-exhausted
\* range and no head of a non-exhausted range is less than it, sorted input
\* or not.
SelectionMinimality == [][SelectMinimal]_vars

SelectionMinimalityWitness ==
    /\ ValidPlan
    /\ pc = "loop"
    /\ ~AllSorted
    /\ Cardinality(Live) >= 2
    /\ Len(output) >= 1

(* C18 *)

\* C18: for unsorted partitions, limit -1 and offset 0 the merge fails no
\* assert, the output never holds a tuple twice and keeps the tuples of each
\* partition in their staging order, and the finished output holds every
\* staged tuple.
UnsortedWellFormed ==
    (LoadingFinished /\ ~AllSorted /\ limit = -1 /\ offset = 0) =>
        /\ pc # "assert_failed"
        /\ \A i, j \in 1..Len(output) :
            (i < j) =>
                /\ output[i] # output[j]
                /\ (PartitionOf(output[i]) = PartitionOf(output[j]))
                       => output[i] < output[j]
        /\ (pc = "done") =>
            {output[i] : i \in 1..Len(output)} = 1..Len(xs)

UnsortedWellFormedWitness ==
    /\ ValidPlan
    /\ pc = "done" /\ ~AllSorted /\ limit = -1 /\ offset = 0
    /\ Len(partitionTupleCounts) >= 2
    /\ Len(output) = Len(xs)
    /\ ~IsSortedSeq(OutRows)

(* C19 *)

IsPrefix(a, b) == Len(a) <= Len(b) /\ SubSeq(b, 1, Len(a)) = a

CursorsInRange ==
    \A k \in 1..Len(partitions) :
        /\ 1 <= partitions[k].first
        /\ partitions[k].first <= partitions[k].second
        /\ partitions[k].second <= Len(xs) + 1

\* A step of the merge that is not cut short by an abort before the cursor
\* moves: a selection step, or an iteration of the drain
TakesTuple ==
    \/ (pc = "loop" /\ pc' = "loop")
    \/ (pc = "drain" /\ pc' \in {"drain", "aborted"})

MergeFrame ==
    /\ IsPrefix(output, output')
    /\ (pc \in {"loop", "drain"}) =>
        LET old == IF pc = "loop" THEN RemoveEmpty(partitions)
                   ELSE partitions
            movers == {k \in 1..Len(old) :
                          partitions'[k].first # old[k].first}
        IN /\ tmpInput' = tmpInput
           /\ xs' = xs
           /\ Len(output') <= Len(output) + 1
           /\ Len(partitions') = Len(old)
           /\ \A k \in 1..Len(old) : partitions'[k].second = old[k].second
           /\ \A k \in movers : partitions'[k].first = old[k].first + 1
           /\ Cardinality(movers) <= 1
           /\ TakesTuple => Cardinality(movers) = 1

\* C19: a merge step moves the cursor of exactly one range forward by one
\* and leaves the other cursors and every range end alone; a cursor never
\* passes its end; the staged tuples are not modified; the output only grows
\* at its end.
FrameOfMergeStep == []CursorsInRange /\ [][MergeFrame]_vars

FrameOfMergeStepWitness ==
    /\ ValidPlan
    /\ pc = "drain"
    /\ Len(output) >= 1
    /\ skipped >= 1
    /\ partitions[1].first > partitions[1].second - 2
    /\ partitions[1].first < partitions[1].second

(* C17 *)

\* Tuples of the ranges still in the list that no cursor has passed
RECURSIVE Remaining(_)
Remaining(ps) ==
    IF ps = <<>> THEN 0
    ELSE (Head(ps).second - Head(ps).first) + Remaining(Tail(ps))

\* The iterations made so far each took one tuple (inserted or skipped), so
\* there are never more of them than staged tuples
IterationBound ==
    Merging =>
        /\ Len(output) + skipped <= Len(xs)
        /\ (pc \in {"loop", "drain", "done"}) =>
               Len(output) + skipped = Len(xs) - Remaining(partitions)

IterationTakesOne ==
    TakesTuple =>
        /\ Len(output') + skipped' = Len(output) + skipped + 1
        /\ Remaining(partitions') = Remaining(RemoveEmpty(partitions)) - 1

\* C17: a merge that has started returns or is aborted; every iteration
\* takes exactly one tuple, so the iterations never outnumber the staged
\* tuples.
Termination ==
    /\ (pc = "loop") ~> (pc \in {"done", "aborted"})
    /\ []IterationBound
    /\ [][IterationTakesOne]_vars

TerminationWitness ==
    /\ ValidPlan
    /\ pc = "done"
    /\ Len(partitionTupleCounts) = 3
    /\ limit = 1 /\ offset = 1
    /\ skipped >= 1
    /\ Len(output) + skipped = Len(xs)
    /\ Len(xs) >= 3

====
